---- MODULE Spec2Model ----
(***************************************************************************)
(* FirebaseAuthManager (src/src/services/auth/FirebaseAuthManager.ts).     *)
(*                                                                         *)
(* The manager bridges an identity provider (Firebase Auth) to a host      *)
(* controller (ClineProvider).  Every async method is cut at its awaits:   *)
(* one action runs the code from one await to the next, on the single      *)
(* cooperative event loop.  A host call (getSecret, setAuthToken,          *)
(* setUserInfo, postStateToWebview) takes effect when it is called and the *)
(* caller resumes in a later step; a provider call (custom-token sign-in,  *)
(* sign-out) is decided by the provider, success or failure, when it       *)
(* returns.  Host calls do not fail (spec section 6 gives them no failure).*)
(***************************************************************************)
EXTENDS Naturals, Sequences, FiniteSets

\* ------------------------------------------------------------------ bounds
\* operations started from outside the manager after construction: explicit
\* signInWithCustomToken / signOut calls made by the host, and auth-state
\* transitions the provider makes on its own (a persisted session loaded
\* after start-up, a session revoked, ...)
MaxOps == 2
\* the same operations, in the specification that also runs the persistence
\* request's outcome and dispose()
MaxLifecycleOps == 1

\* ------------------------------------------------------------------ values
NullUser == "null"
Users == {"alice", "bob"}
Undefined == "undefined"
Tokens == {"abc123", "xyz789"}
\* what the host's secret store can hold at start-up: nothing, the empty
\* string, a token
StoredTokens == {Undefined, "", "abc123"}
NoArg == "-"

\* the provider's User objects: the fields handleAuthStateChange reads
UserRecord(u) ==
  IF u = "alice"
    THEN [uid |-> "alice", displayName |-> "Alice", email |-> "a@x.com", photoURL |-> "null"]
    ELSE [uid |-> "bob", displayName |-> "Bob", email |-> "b@x.com", photoURL |-> "https://x.com/bob.png"]

\* the user a custom token signs in, when the provider accepts the token
UserOfToken(t) == IF t = "abc123" THEN "alice" ELSE "bob"

\* faulty variant of UserInfo: the photo URL is not copied
UserInfo_DropsPhoto(u) ==
  [displayName |-> UserRecord(u).displayName,
   email |-> UserRecord(u).email,
   photoURL |-> "null"]

\* UserInfo built from a provider user (lines 63-67 and 110-114)
UserInfo(u) ==
  [displayName |-> UserRecord(u).displayName,
   email |-> UserRecord(u).email,
   photoURL |-> UserRecord(u).photoURL]

\* an optional UserInfo: <<>> is undefined, <<i>> is the profile i
None == <<>>
Some(i) == <<i>>
Profiles == {None} \cup {Some(UserInfo(u)) : u \in Users}

\* faulty variant of Truthy: only undefined counts as no token
Truthy_EmptyIsToken(t) == t # Undefined

\* JavaScript truthiness of a string | undefined (line 74)
Truthy(t) == t # Undefined /\ t # ""

\* one call made by an invocation: operation, token argument, UserInfo argument
Entry(op, tok, info) == [op |-> op, tok |-> tok, info |-> info]

VARIABLES
  alive,        \* providerRef.deref() resolves (the host controller is not collected)
  authToken,    \* host: the secret "authToken"
  userInfo,     \* host: the UserInfo in its state
  currentUser,  \* provider: auth.currentUser
  lastNotified, \* provider: the user of the last auth-state notification
  registered,   \* provider: the auth-state listener is subscribed
  events,       \* provider: auth-state notifications not yet delivered
  persistence,  \* the setPersistence request of the constructor
  ctorLog,      \* the constructor's steps, in order
  rpc,          \* restoreSession: the await it is suspended at
  rLive,        \* restoreSession: providerRef.deref() gave it the host
  rToken,       \* restoreSession: its local storedToken
  rlog,         \* restoreSession: the calls it made
  rSignIn,      \* restoreSession: outcome of its sign-in
  rSignOut,     \* restoreSession: outcome of its cleanup sign-out
  rresult,      \* restoreSession: how its promise settled
  cbs,          \* handleAuthStateChange invocations, in the order they started
  calls,        \* explicit signInWithCustomToken / signOut calls of the host
  infoWriter,   \* who made the last setUserInfo call
  disposed,     \* dispose() was called
  disposedAt,   \* where restoreSession stood when dispose() was called
  nExternal     \* provider-made transitions so far

vars == <<alive, authToken, userInfo, currentUser, lastNotified, registered, events,
          persistence, ctorLog, rpc, rLive, rToken, rlog, rSignIn, rSignOut, rresult,
          cbs, calls, infoWriter, disposed, disposedAt, nExternal>>

hostVars == <<authToken, userInfo, infoWriter>>
provVars == <<currentUser, lastNotified, events>>
restoreVars == <<rpc, rLive, rToken, rlog, rSignIn, rSignOut, rresult>>
ctorVars == <<registered, persistence, ctorLog>>

\* ---------------------------------------------------------------- provider
\* The provider notifies its listener when the signed-in user changes.
Notify(u) ==
  /\ lastNotified' = u
  /\ events' = IF registered /\ u # lastNotified THEN Append(events, u) ELSE events

\* signInWithCustomToken(auth, token) resolved
ProviderSignedIn(token) ==
  /\ currentUser' = UserOfToken(token)
  /\ Notify(UserOfToken(token))

\* signOut(auth) resolved
ProviderSignedOut ==
  /\ currentUser' = NullUser
  /\ Notify(NullUser)

\* ------------------------------------------------------------------- init
\* Before `new FirebaseAuthManager(provider)`: what the host has persisted
\* and what session the provider already holds.
Init ==
  /\ alive = TRUE
  /\ authToken \in StoredTokens
  /\ userInfo \in Profiles
  /\ currentUser \in Users \cup {NullUser}
  /\ lastNotified = NullUser
  /\ registered = FALSE
  /\ events = <<>>
  /\ persistence = "none"
  /\ ctorLog = <<>>
  /\ rpc = "idle"
  /\ rLive = FALSE
  /\ rToken = Undefined
  /\ rlog = <<>>
  /\ rSignIn = "none"
  /\ rSignOut = "none"
  /\ rresult = "pending"
  /\ cbs = <<>>
  /\ calls = <<>>
  /\ infoWriter = "host"
  /\ disposed = FALSE
  /\ disposedAt = "never"
  /\ nExternal = 0

\* -------------------------------------------------------------- host calls
\* provider.setAuthToken(v), provider.setUserInfo(v): the write is made when
\* the call is made; `who` is the invocation that made it
SetAuthToken(v) == authToken' = v
SetUserInfo(v, who) == userInfo' = v /\ infoWriter' = who

Last(s) == s[Len(s)]

\* the operations of a call log, and how often one occurs in it
Ops(log) == [i \in DOMAIN log |-> log[i].op]
Count(log, op) == Cardinality({i \in DOMAIN log : log[i].op = op})

\* --------------------------------------------------------- restoreSession
\* lines 51-73: up to the first await
RestoreSessionStart ==
  /\ rLive' = alive
  /\ rSignIn' = rSignIn
  /\ rSignOut' = rSignOut
  /\ IF ~alive
       THEN /\ rpc' = "done"
            /\ rresult' = "ok"
            /\ UNCHANGED <<rToken, rlog, hostVars>>
       ELSE IF currentUser # NullUser
         THEN /\ SetUserInfo(Some(UserInfo(currentUser)), "restore")
              /\ rlog' = <<Entry("setUserInfo", NoArg, Some(UserInfo(currentUser)))>>
              /\ rpc' = "awaitSetUserInfoExisting"
              /\ UNCHANGED <<rToken, rresult, authToken>>
         ELSE /\ rToken' = authToken
              /\ rlog' = <<Entry("getSecret", NoArg, None)>>
              /\ rpc' = "awaitGetSecret"
              /\ UNCHANGED <<rresult, hostVars>>

\* faulty variant of RestoreExistingReturn: restoration asks for the webview
\* update once it has copied the existing session
RestoreExistingReturn_PostsState ==
  /\ rpc = "awaitSetUserInfoExisting"
  /\ rlog' = Append(rlog, Entry("postStateToWebview", NoArg, None))
  /\ rpc' = "done"
  /\ rresult' = "ok"
  /\ UNCHANGED <<rLive, rToken, rSignIn, rSignOut>>
  /\ UNCHANGED <<alive, hostVars, provVars, ctorVars, cbs, calls, disposed, disposedAt, nExternal>>

\* lines 68-69: the existing session was copied
RestoreExistingReturn ==
  /\ rpc = "awaitSetUserInfoExisting"
  /\ rpc' = "done"
  /\ rresult' = "ok"
  /\ UNCHANGED <<rLive, rToken, rlog, rSignIn, rSignOut>>
  /\ UNCHANGED <<alive, hostVars, provVars, ctorVars, cbs, calls, disposed, disposedAt, nExternal>>

\* lines 73-77 and 90-92: getSecret returned
RestoreGetSecretReturn ==
  /\ rpc = "awaitGetSecret"
  /\ IF Truthy(rToken)
       THEN /\ rlog' = Append(rlog, Entry("signInWithCustomToken", rToken, None))
            /\ rpc' = "awaitSignIn"
            /\ UNCHANGED rresult
       ELSE /\ rpc' = "done"
            /\ rresult' = "ok"
            /\ UNCHANGED rlog
  /\ UNCHANGED <<rLive, rToken, rSignIn, rSignOut>>
  /\ UNCHANGED <<alive, hostVars, provVars, ctorVars, cbs, calls, disposed, disposedAt, nExternal>>

\* faulty variant of RestoreSignInOk: the token is stored again on success
RestoreSignInOk_StoresToken ==
  /\ rpc = "awaitSignIn"
  /\ ProviderSignedIn(Last(rlog).tok)
  /\ rSignIn' = "ok"
  /\ SetAuthToken(rToken)
  /\ rlog' = Append(rlog, Entry("setAuthToken", rToken, None))
  /\ rpc' = "done"
  /\ rresult' = "ok"
  /\ UNCHANGED <<rLive, rToken, rSignOut, userInfo, infoWriter>>
  /\ UNCHANGED <<alive, ctorVars, cbs, calls, disposed, disposedAt, nExternal>>

\* lines 77-78: the sign-in resolved
RestoreSignInOk ==
  /\ rpc = "awaitSignIn"
  /\ ProviderSignedIn(Last(rlog).tok)
  /\ rSignIn' = "ok"
  /\ rpc' = "done"
  /\ rresult' = "ok"
  /\ UNCHANGED <<rLive, rToken, rlog, rSignOut>>
  /\ UNCHANGED <<alive, hostVars, ctorVars, cbs, calls, disposed, disposedAt, nExternal>>

\* faulty variant of RestoreSignInFail: the sign-in is tried a second time
\* before the cleanup
RestoreSignInFail_Retries ==
  /\ rpc = "awaitSignIn"
  /\ IF Count(rlog, "signInWithCustomToken") < 2
       THEN /\ rlog' = Append(rlog, Entry("signInWithCustomToken", rToken, None))
            /\ rpc' = "awaitSignIn"
            /\ UNCHANGED <<rSignIn, authToken>>
       ELSE /\ rSignIn' = "failed"
            /\ SetAuthToken(Undefined)
            /\ rlog' = Append(rlog, Entry("setAuthToken", Undefined, None))
            /\ rpc' = "awaitSetAuthToken"
  /\ UNCHANGED <<rLive, rToken, rSignOut, rresult, userInfo, infoWriter>>
  /\ UNCHANGED <<alive, provVars, ctorVars, cbs, calls, disposed, disposedAt, nExternal>>

\* lines 79-81: the sign-in rejected; the catch block starts
RestoreSignInFail ==
  /\ rpc = "awaitSignIn"
  /\ rSignIn' = "failed"
  /\ SetAuthToken(Undefined)
  /\ rlog' = Append(rlog, Entry("setAuthToken", Undefined, None))
  /\ rpc' = "awaitSetAuthToken"
  /\ UNCHANGED <<rLive, rToken, rSignOut, rresult, userInfo, infoWriter>>
  /\ UNCHANGED <<alive, provVars, ctorVars, cbs, calls, disposed, disposedAt, nExternal>>

\* faulty variant of RestoreSetAuthTokenReturn: the profile is not cleared
RestoreSetAuthTokenReturn_KeepsProfile ==
  /\ rpc = "awaitSetAuthToken"
  /\ rpc' = "awaitSetUserInfo"
  /\ UNCHANGED <<rLive, rToken, rlog, rSignIn, rSignOut, rresult, hostVars>>
  /\ UNCHANGED <<alive, provVars, ctorVars, cbs, calls, disposed, disposedAt, nExternal>>

\* line 82
RestoreSetAuthTokenReturn ==
  /\ rpc = "awaitSetAuthToken"
  /\ SetUserInfo(None, "restore")
  /\ rlog' = Append(rlog, Entry("setUserInfo", NoArg, None))
  /\ rpc' = "awaitSetUserInfo"
  /\ UNCHANGED <<rLive, rToken, rSignIn, rSignOut, rresult, authToken>>
  /\ UNCHANGED <<alive, provVars, ctorVars, cbs, calls, disposed, disposedAt, nExternal>>

\* lines 84-85
RestoreSetUserInfoReturn ==
  /\ rpc = "awaitSetUserInfo"
  /\ rlog' = Append(rlog, Entry("signOut", NoArg, None))
  /\ rpc' = "awaitSignOut"
  /\ UNCHANGED <<rLive, rToken, rSignIn, rSignOut, rresult>>
  /\ UNCHANGED <<alive, hostVars, provVars, ctorVars, cbs, calls, disposed, disposedAt, nExternal>>

\* line 85: the cleanup sign-out resolved
RestoreSignOutOk ==
  /\ rpc = "awaitSignOut"
  /\ ProviderSignedOut
  /\ rSignOut' = "ok"
  /\ rpc' = "done"
  /\ rresult' = "ok"
  /\ UNCHANGED <<rLive, rToken, rlog, rSignIn>>
  /\ UNCHANGED <<alive, hostVars, ctorVars, cbs, calls, disposed, disposedAt, nExternal>>

\* faulty variant of RestoreSignOutFail: the cleanup sign-out is tried again
\* for as long as it fails
RestoreSignOutFail_RetriesForever ==
  /\ rpc = "awaitSignOut"
  /\ rSignOut' = IF rSignOut = "failed" THEN "retrying" ELSE "failed"
  /\ UNCHANGED <<rpc, rresult, rLive, rToken, rlog, rSignIn>>
  /\ UNCHANGED <<alive, hostVars, provVars, ctorVars, cbs, calls, disposed, disposedAt, nExternal>>

\* faulty variant of RestoreSignOutFail: the cleanup failure is rethrown
RestoreSignOutFail_Rethrows ==
  /\ rpc = "awaitSignOut"
  /\ rSignOut' = "failed"
  /\ rpc' = "done"
  /\ rresult' = "error"
  /\ UNCHANGED <<rLive, rToken, rlog, rSignIn>>
  /\ UNCHANGED <<alive, hostVars, provVars, ctorVars, cbs, calls, disposed, disposedAt, nExternal>>

\* lines 86-88: the cleanup sign-out rejected; logged, not rethrown
RestoreSignOutFail ==
  /\ rpc = "awaitSignOut"
  /\ rSignOut' = "failed"
  /\ rpc' = "done"
  /\ rresult' = "ok"
  /\ UNCHANGED <<rLive, rToken, rlog, rSignIn>>
  /\ UNCHANGED <<alive, hostVars, provVars, ctorVars, cbs, calls, disposed, disposedAt, nExternal>>

\* ------------------------------------------------------------ constructor
\* lines 27-49.  The host is the constructor's argument, so the weak
\* reference resolves throughout; restoreSession runs to its first await
\* inside the constructor.  The listener gets the provider's current state
\* as its first notification.
Construct ==
  /\ rpc = "idle"
  /\ persistence' = "pending"
  /\ registered' = TRUE
  /\ lastNotified' = currentUser
  /\ events' = <<currentUser>>
  /\ ctorLog' = <<"initializeApp", "getAuth", "setPersistence",
                  "onAuthStateChanged", "restoreSession">>
  /\ RestoreSessionStart
  /\ UNCHANGED <<alive, currentUser, cbs, calls, disposed, disposedAt, nExternal>>

\* lines 36-38: setPersistence resolved
PersistenceSet ==
  /\ persistence = "pending"
  /\ persistence' = "local"
  /\ UNCHANGED <<alive, hostVars, provVars, registered, ctorLog, restoreVars,
                 cbs, calls, disposed, disposedAt, nExternal>>

\* faulty variant of PersistenceFailed: a failed persistence request takes the
\* auth-state listener down with it
PersistenceFailed_Unregisters ==
  /\ persistence = "pending"
  /\ persistence' = "failed"
  /\ registered' = FALSE
  /\ UNCHANGED <<alive, hostVars, provVars, ctorLog, restoreVars,
                 cbs, calls, disposed, disposedAt, nExternal>>

\* lines 39-41: setPersistence rejected; logged only
PersistenceFailed ==
  /\ persistence = "pending"
  /\ persistence' = "failed"
  /\ UNCHANGED <<alive, hostVars, provVars, registered, ctorLog, restoreVars,
                 cbs, calls, disposed, disposedAt, nExternal>>

\* -------------------------------------------------- handleAuthStateChange
\* an invocation: the user it was given, whether deref() gave it the host,
\* the await it is suspended at, the calls it made, and whether dispose() had
\* been called when it started
Invocation(u, live, pc, log) ==
  [user |-> u, live |-> live, pc |-> pc, log |-> log, disposed |-> disposed]

InFlight(i) == cbs[i].pc # "done"

\* faulty variant of HandleAuthStateChange: the host is used without the
\* deref() check
HandleAuthStateChange_NoDerefCheck ==
  /\ events # <<>>
  /\ events' = Tail(events)
  /\ LET user == Head(events) IN
       IF user # NullUser
         THEN /\ SetUserInfo(Some(UserInfo(user)), "callback")
              /\ cbs' = Append(cbs, Invocation(user, alive, "awaitSetUserInfo",
                          <<Entry("setUserInfo", NoArg, Some(UserInfo(user)))>>))
              /\ UNCHANGED authToken
         ELSE /\ SetAuthToken(Undefined)
              /\ cbs' = Append(cbs, Invocation(user, alive, "awaitSetAuthToken",
                          <<Entry("setAuthToken", Undefined, None)>>))
              /\ UNCHANGED <<userInfo, infoWriter>>
  /\ UNCHANGED <<alive, currentUser, lastNotified, ctorVars, restoreVars,
                 calls, disposed, disposedAt, nExternal>>

\* lines 99-119: the provider delivers its next notification; the handler
\* runs to its first await
HandleAuthStateChange ==
  /\ events # <<>>
  /\ events' = Tail(events)
  /\ LET user == Head(events) IN
       IF ~alive
         THEN /\ cbs' = Append(cbs, Invocation(user, FALSE, "done", <<>>))
              /\ UNCHANGED hostVars
         ELSE IF user # NullUser
           THEN /\ SetUserInfo(Some(UserInfo(user)), "callback")
                /\ cbs' = Append(cbs, Invocation(user, TRUE, "awaitSetUserInfo",
                            <<Entry("setUserInfo", NoArg, Some(UserInfo(user)))>>))
                /\ UNCHANGED authToken
           ELSE /\ SetAuthToken(Undefined)
                /\ cbs' = Append(cbs, Invocation(user, TRUE, "awaitSetAuthToken",
                            <<Entry("setAuthToken", Undefined, None)>>))
                /\ UNCHANGED <<userInfo, infoWriter>>
  /\ UNCHANGED <<alive, currentUser, lastNotified, ctorVars, restoreVars,
                 calls, disposed, disposedAt, nExternal>>

\* lines 118-119: setAuthToken(undefined) returned
CallbackSetAuthTokenReturn(i) ==
  /\ cbs[i].pc = "awaitSetAuthToken"
  /\ SetUserInfo(None, "callback")
  /\ cbs' = [cbs EXCEPT ![i].pc = "awaitSetUserInfo",
                        ![i].log = Append(@, Entry("setUserInfo", NoArg, None))]
  /\ UNCHANGED <<alive, authToken, provVars, ctorVars, restoreVars,
                 calls, disposed, disposedAt, nExternal>>

\* faulty variant of CallbackSetUserInfoReturn: the sign-out branch returns
\* without asking for the webview update
CallbackSetUserInfoReturn_NoPostOnSignOut(i) ==
  /\ cbs[i].pc = "awaitSetUserInfo"
  /\ cbs' = IF cbs[i].user = NullUser
              THEN [cbs EXCEPT ![i].pc = "done"]
              ELSE [cbs EXCEPT ![i].pc = "awaitPostState",
                               ![i].log = Append(@, Entry("postStateToWebview", NoArg, None))]
  /\ UNCHANGED <<alive, hostVars, provVars, ctorVars, restoreVars,
                 calls, disposed, disposedAt, nExternal>>

\* lines 115-121: setUserInfo returned
CallbackSetUserInfoReturn(i) ==
  /\ cbs[i].pc = "awaitSetUserInfo"
  /\ cbs' = [cbs EXCEPT ![i].pc = "awaitPostState",
                        ![i].log = Append(@, Entry("postStateToWebview", NoArg, None))]
  /\ UNCHANGED <<alive, hostVars, provVars, ctorVars, restoreVars,
                 calls, disposed, disposedAt, nExternal>>

\* lines 121-123: postStateToWebview returned
CallbackPostStateReturn(i) ==
  /\ cbs[i].pc = "awaitPostState"
  /\ cbs' = [cbs EXCEPT ![i].pc = "done"]
  /\ UNCHANGED <<alive, hostVars, provVars, ctorVars, restoreVars,
                 calls, disposed, disposedAt, nExternal>>

\* ----------------------------------------------------------- explicit calls
\* an explicit call: the operation, its token, what the provider answered
\* ("pending", "resolved", "rejected") and how the call's promise settled
\* ("pending", "ok", "error")
Call(op, tok) == [op |-> op, tok |-> tok, provider |-> "pending", status |-> "pending"]

Constructed == rpc # "idle"

\* lines 125-127: the host calls signInWithCustomToken(token)
SignInWithCustomToken(token) ==
  /\ Constructed /\ alive
  /\ Len(calls) + nExternal < MaxOps
  /\ calls' = Append(calls, Call("signInWithCustomToken", token))
  /\ UNCHANGED <<alive, hostVars, provVars, ctorVars, restoreVars, cbs,
                 disposed, disposedAt, nExternal>>

\* faulty variant of SignInResolved: the token is stored after a successful
\* sign-in
SignInResolved_StoresToken(i) ==
  /\ calls[i].op = "signInWithCustomToken" /\ calls[i].status = "pending"
  /\ ProviderSignedIn(calls[i].tok)
  /\ calls' = [calls EXCEPT ![i].provider = "resolved", ![i].status = "ok"]
  /\ SetAuthToken(calls[i].tok)
  /\ UNCHANGED <<userInfo, infoWriter>>
  /\ UNCHANGED <<alive, ctorVars, restoreVars, cbs, disposed, disposedAt, nExternal>>

\* lines 127-128: the provider accepted the token
SignInResolved(i) ==
  /\ calls[i].op = "signInWithCustomToken" /\ calls[i].status = "pending"
  /\ ProviderSignedIn(calls[i].tok)
  /\ calls' = [calls EXCEPT ![i].provider = "resolved", ![i].status = "ok"]
  /\ UNCHANGED <<alive, hostVars, ctorVars, restoreVars, cbs, disposed, disposedAt, nExternal>>

\* faulty variant of SignInRejected: the rejection is swallowed and the call
\* is issued again
SignInRejected_Retries(i) ==
  /\ calls[i].op = "signInWithCustomToken" /\ calls[i].status = "pending"
  /\ calls[i].provider = "pending"
  /\ calls' = [calls EXCEPT ![i].provider = "rejected"]
  /\ UNCHANGED <<alive, hostVars, provVars, ctorVars, restoreVars, cbs,
                 disposed, disposedAt, nExternal>>

\* line 127: the provider rejected the token; the rejection reaches the caller
SignInRejected(i) ==
  /\ calls[i].op = "signInWithCustomToken" /\ calls[i].status = "pending"
  /\ calls' = [calls EXCEPT ![i].provider = "rejected", ![i].status = "error"]
  /\ UNCHANGED <<alive, hostVars, provVars, ctorVars, restoreVars, cbs,
                 disposed, disposedAt, nExternal>>

\* lines 130-132: the host calls signOut()
SignOut ==
  /\ Constructed /\ alive
  /\ Len(calls) + nExternal < MaxOps
  /\ calls' = Append(calls, Call("signOut", NoArg))
  /\ UNCHANGED <<alive, hostVars, provVars, ctorVars, restoreVars, cbs,
                 disposed, disposedAt, nExternal>>

\* faulty variant of SignOutResolved: signOut() clears the host state itself
SignOutResolved_ClearsHost(i) ==
  /\ calls[i].op = "signOut" /\ calls[i].status = "pending"
  /\ ProviderSignedOut
  /\ calls' = [calls EXCEPT ![i].provider = "resolved", ![i].status = "ok"]
  /\ SetAuthToken(Undefined)
  /\ SetUserInfo(None, "signOut")
  /\ UNCHANGED <<alive, ctorVars, restoreVars, cbs, disposed, disposedAt, nExternal>>

\* lines 132-133: the provider signed out
SignOutResolved(i) ==
  /\ calls[i].op = "signOut" /\ calls[i].status = "pending"
  /\ ProviderSignedOut
  /\ calls' = [calls EXCEPT ![i].provider = "resolved", ![i].status = "ok"]
  /\ UNCHANGED <<alive, hostVars, ctorVars, restoreVars, cbs, disposed, disposedAt, nExternal>>

\* faulty variant of SignOutRejected: the host state is cleared although the
\* sign-out failed
SignOutRejected_ClearsHost(i) ==
  /\ calls[i].op = "signOut" /\ calls[i].status = "pending"
  /\ calls' = [calls EXCEPT ![i].provider = "rejected", ![i].status = "error"]
  /\ SetAuthToken(Undefined)
  /\ SetUserInfo(None, "signOut")
  /\ UNCHANGED <<alive, provVars, ctorVars, restoreVars, cbs, disposed, disposedAt, nExternal>>

\* line 132: the provider's sign-out failed; the rejection reaches the caller
SignOutRejected(i) ==
  /\ calls[i].op = "signOut" /\ calls[i].status = "pending"
  /\ calls' = [calls EXCEPT ![i].provider = "rejected", ![i].status = "error"]
  /\ UNCHANGED <<alive, hostVars, provVars, ctorVars, restoreVars, cbs,
                 disposed, disposedAt, nExternal>>

\* lines 95-97: getCurrentUser()
GetCurrentUser == currentUser

\* faulty variant of Dispose: the auth-state listener is unsubscribed
Dispose_Unsubscribes ==
  /\ Constructed /\ ~disposed
  /\ disposed' = TRUE
  /\ disposedAt' = rpc
  /\ registered' = FALSE
  /\ events' = <<>>
  /\ UNCHANGED <<alive, hostVars, currentUser, lastNotified, persistence, ctorLog,
                 restoreVars, cbs, calls, nExternal>>

\* faulty variant of Dispose: a restoration in flight is cancelled
Dispose_CancelsRestore ==
  /\ Constructed /\ ~disposed
  /\ disposed' = TRUE
  /\ disposedAt' = rpc
  /\ rpc' = "done"
  /\ rresult' = "ok"
  /\ UNCHANGED <<rLive, rToken, rlog, rSignIn, rSignOut>>
  /\ UNCHANGED <<alive, hostVars, provVars, ctorVars, cbs, calls, nExternal>>

\* lines 135-138: disposables is always empty, nothing is unsubscribed
Dispose ==
  /\ Constructed /\ ~disposed
  /\ disposed' = TRUE
  /\ disposedAt' = rpc
  /\ UNCHANGED <<alive, hostVars, provVars, ctorVars, restoreVars, cbs,
                 calls, nExternal>>

\* ------------------------------------------------------------- environment
\* The provider changes its user on its own: a persisted session finishes
\* loading, a session is revoked.
ProviderTransition(u) ==
  /\ Constructed
  /\ Len(calls) + nExternal < MaxOps
  /\ u # currentUser
  /\ currentUser' = u
  /\ Notify(u)
  /\ nExternal' = nExternal + 1
  /\ UNCHANGED <<alive, hostVars, ctorVars, restoreVars, cbs, calls, disposed, disposedAt>>

\* The host controller is collected: nothing holds it any more.  A suspended
\* restoreSession or handler holds it in its local `provider`.
HostCollected ==
  /\ alive
  /\ rpc = "done"
  /\ \A i \in DOMAIN cbs : ~InFlight(i)
  /\ \A i \in DOMAIN calls : calls[i].status # "pending"
  /\ alive' = FALSE
  /\ UNCHANGED <<hostVars, provVars, ctorVars, restoreVars, cbs, calls,
                 disposed, disposedAt, nExternal>>

\* restoreSession resumes: the call it awaits has returned
RestoreStep ==
  \/ RestoreExistingReturn
  \/ RestoreGetSecretReturn
  \/ RestoreSignInOk
  \/ RestoreSignInFail
  \/ RestoreSetAuthTokenReturn
  \/ RestoreSetUserInfoReturn
  \/ RestoreSignOutOk
  \/ RestoreSignOutFail

Next ==
  \/ Construct
  \/ RestoreExistingReturn
  \/ RestoreGetSecretReturn
  \/ RestoreSignInOk
  \/ RestoreSignInFail
  \/ RestoreSetAuthTokenReturn
  \/ RestoreSetUserInfoReturn
  \/ RestoreSignOutOk
  \/ RestoreSignOutFail
  \/ HandleAuthStateChange
  \/ \E i \in DOMAIN cbs : CallbackSetAuthTokenReturn(i)
  \/ \E i \in DOMAIN cbs : CallbackSetUserInfoReturn(i)
  \/ \E i \in DOMAIN cbs : CallbackPostStateReturn(i)
  \/ \E token \in Tokens : SignInWithCustomToken(token)
  \/ \E i \in DOMAIN calls : SignInResolved(i)
  \/ \E i \in DOMAIN calls : SignInRejected(i)
  \/ SignOut
  \/ \E i \in DOMAIN calls : SignOutResolved(i)
  \/ \E i \in DOMAIN calls : SignOutRejected(i)
  \/ \E u \in Users \cup {NullUser} : ProviderTransition(u)
  \/ HostCollected

\* session handling: construction, restoration, auth-state callbacks, explicit
\* calls, provider transitions
Spec == Init /\ [][Next]_vars

\* the same with the steps that touch no session state, the persistence
\* request's outcome and dispose(), under a smaller number of outside
\* operations
FewOps == Len(calls) + nExternal < MaxLifecycleOps

NextLifecycle ==
  \/ Construct
  \/ PersistenceSet
  \/ PersistenceFailed
  \/ RestoreExistingReturn
  \/ RestoreGetSecretReturn
  \/ RestoreSignInOk
  \/ RestoreSignInFail
  \/ RestoreSetAuthTokenReturn
  \/ RestoreSetUserInfoReturn
  \/ RestoreSignOutOk
  \/ RestoreSignOutFail
  \/ HandleAuthStateChange
  \/ \E i \in DOMAIN cbs : CallbackSetAuthTokenReturn(i)
  \/ \E i \in DOMAIN cbs : CallbackSetUserInfoReturn(i)
  \/ \E i \in DOMAIN cbs : CallbackPostStateReturn(i)
  \/ FewOps /\ \E token \in Tokens : SignInWithCustomToken(token)
  \/ \E i \in DOMAIN calls : SignInResolved(i)
  \/ \E i \in DOMAIN calls : SignInRejected(i)
  \/ FewOps /\ SignOut
  \/ \E i \in DOMAIN calls : SignOutResolved(i)
  \/ \E i \in DOMAIN calls : SignOutRejected(i)
  \/ Dispose
  \/ FewOps /\ \E u \in Users \cup {NullUser} : ProviderTransition(u)
  \/ HostCollected

SpecLifecycle == Init /\ [][NextLifecycle]_vars

\* session handling under the smaller number of outside operations
NextFewOps ==
  \/ Construct
  \/ RestoreExistingReturn
  \/ RestoreGetSecretReturn
  \/ RestoreSignInOk
  \/ RestoreSignInFail
  \/ RestoreSetAuthTokenReturn
  \/ RestoreSetUserInfoReturn
  \/ RestoreSignOutOk
  \/ RestoreSignOutFail
  \/ HandleAuthStateChange
  \/ \E i \in DOMAIN cbs : CallbackSetAuthTokenReturn(i)
  \/ \E i \in DOMAIN cbs : CallbackSetUserInfoReturn(i)
  \/ \E i \in DOMAIN cbs : CallbackPostStateReturn(i)
  \/ FewOps /\ \E token \in Tokens : SignInWithCustomToken(token)
  \/ \E i \in DOMAIN calls : SignInResolved(i)
  \/ \E i \in DOMAIN calls : SignInRejected(i)
  \/ FewOps /\ SignOut
  \/ \E i \in DOMAIN calls : SignOutResolved(i)
  \/ \E i \in DOMAIN calls : SignOutRejected(i)
  \/ FewOps /\ \E u \in Users \cup {NullUser} : ProviderTransition(u)
  \/ HostCollected

\* every host call and provider call that restoreSession awaits returns in
\* the end, with success or failure: the event loop then resumes it
SpecCallsReturn == Init /\ [][NextFewOps]_vars /\ WF_vars(RestoreStep)

\* ================================================================ properties
AllReturned == \A i \in DOMAIN cbs : cbs[i].pc = "done"

\* C1: whenever restoration has settled, no auth-state callback is suspended
\* and no notification is waiting, the host state matches the provider: a
\* provider user means the host holds that user's profile; no provider user
\* means the host holds no profile and no stored token.
C1_HostMatchesProvider ==
  (alive /\ rpc = "done" /\ AllReturned /\ events = <<>>)
    => IF currentUser # NullUser
         THEN userInfo = Some([displayName |-> UserRecord(currentUser).displayName,
                               email |-> UserRecord(currentUser).email,
                               photoURL |-> UserRecord(currentUser).photoURL])
         ELSE userInfo = None /\ authToken = Undefined

\* C2: once every auth-state callback invocation has returned, the host holds
\* a profile exactly if the most recent notification carried a user (taken
\* where the last profile write was a callback's, so that restoration's own
\* writes play no part).
C2_LastEventDecidesProfile ==
  (cbs # <<>> /\ AllReturned /\ (\A i \in DOMAIN cbs : cbs[i].live)
     /\ infoWriter = "callback")
    => ((userInfo # None) <=> (Last(cbs).user # NullUser))

RestoreSettles == rpc # "done" /\ rpc' = "done"

\* C3 as claimed: when a restoration whose sign-in failed settles, the stored
\* token is absent, the host profile is absent and restoration attempted
\* exactly one provider sign-out, whatever callbacks ran meanwhile.
C3_FailedRestoreLeavesCleanState ==
  [][(RestoreSettles /\ rSignIn' = "failed")
       => /\ authToken' = Undefined
          /\ userInfo' = None
          /\ Count(rlog', "signOut") = 1]_vars

\* C3 amended: when a restoration whose sign-in failed settles, the stored
\* token is absent and restoration attempted exactly one provider sign-out;
\* the host profile is absent unless the last setUserInfo call was made by an
\* auth-state callback that carried a user, and then it is that user's
\* profile.
C3_FailedRestoreCleanup ==
  [][(RestoreSettles /\ rSignIn' = "failed")
       => /\ authToken' = Undefined
          /\ Count(rlog', "signOut") = 1
          /\ \/ userInfo' = None
             \/ /\ infoWriter' = "callback"
                /\ \E i \in DOMAIN cbs' :
                     /\ cbs'[i].live /\ cbs'[i].user # NullUser
                     /\ userInfo' = cbs'[i].log[1].info]_vars

\* C3 witness: a restoration whose sign-in failed has settled while
\* auth-state callbacks ran, one of them still suspended
C3_Witness ==
  /\ rpc = "done" /\ rSignIn = "failed" /\ rSignOut # "none"
  /\ \E i \in DOMAIN cbs : cbs[i].pc # "done"

\* C4: a restoration that found no provider user and read a non-empty stored
\* token T calls the provider's custom-token sign-in exactly once, with T,
\* whether the sign-in succeeds or fails.
C4_SignInOnceWithStoredToken ==
  (rLive /\ rlog # <<>> /\ rlog[1].op = "getSecret" /\ Truthy(rToken)
     /\ rpc # "awaitGetSecret")
    => /\ Count(rlog, "signInWithCustomToken") = 1
       /\ rlog[2] = [op |-> "signInWithCustomToken", tok |-> rToken, info |-> <<>>]

\* C4 witness: such a restoration has settled after a failed sign-in
C4_Witness ==
  /\ rpc = "done" /\ rSignIn = "failed" /\ rToken = "abc123"

\* C5: when the provider reports a user as restoration checks it, restoration
\* writes exactly that user's displayName, email and photoURL with setUserInfo
\* and settles having made no other call.
C5_ExistingSessionCopied ==
  [][/\ (rpc = "idle" /\ rpc' # "idle" /\ currentUser # NullUser)
          => /\ rpc' = "awaitSetUserInfoExisting"
             /\ userInfo' = <<[displayName |-> UserRecord(currentUser).displayName,
                               email |-> UserRecord(currentUser).email,
                               photoURL |-> UserRecord(currentUser).photoURL]>>
             /\ rlog' = <<[op |-> "setUserInfo", tok |-> NoArg, info |-> userInfo']>>
             /\ authToken' = authToken
             /\ (currentUser = "alice" =>
                   userInfo' = <<[displayName |-> "Alice", email |-> "a@x.com",
                                  photoURL |-> "null"]>>)
     /\ (rpc = "awaitSetUserInfoExisting")
          => /\ rlog' = rlog
             /\ rpc' \in {"awaitSetUserInfoExisting", "done"}
             /\ rSignIn' = "none" /\ rSignOut' = "none"
             /\ (rpc' = "done" => rresult' = "ok")]_vars

\* C5 witness: a restoration that copied bob's existing session has settled
C5_Witness ==
  /\ rpc = "done" /\ Ops(rlog) = <<"setUserInfo">>
  /\ rlog[1].info # None /\ rlog[1].info[1].displayName = "Bob"

\* a step of the explicit signOut() call i: it is made, or it settles
SignOutStep(i) ==
  /\ i \in DOMAIN calls' /\ calls'[i].op = "signOut"
  /\ (i \notin DOMAIN calls \/ calls[i] # calls'[i])

\* C6: an explicit signOut() that fails at the provider settles with that
\* failure for its caller, and no step of a signOut() call changes the host's
\* stored token or profile; a failed sign-out leaves the provider's session
\* alone and queues no notification, so nothing is cleared on its account.
C6_SignOutFailureSurfaced ==
  [][\A i \in DOMAIN calls' :
       SignOutStep(i)
         => /\ authToken' = authToken /\ userInfo' = userInfo
            /\ (calls'[i].provider = "rejected"
                  => /\ calls'[i].status = "error"
                     /\ currentUser' = currentUser /\ events' = events)
            /\ (calls'[i].provider = "resolved" => calls'[i].status = "ok")]_vars

\* C6 witness: a signOut() has failed while the host still holds a token and
\* a profile
C6_Witness ==
  \E i \in DOMAIN calls :
    /\ calls[i].op = "signOut" /\ calls[i].provider = "rejected"
    /\ authToken # Undefined /\ userInfo # None

\* C7: a restoration whose sign-in with the stored token succeeded has made
\* no setAuthToken and no setUserInfo call, and from the moment the sign-in
\* succeeds the host's stored token and profile change only in steps of an
\* auth-state callback.
C7_SuccessfulRestoreWritesNothing ==
  [][(rSignIn' = "ok")
       => /\ Ops(rlog') = <<"getSecret", "signInWithCustomToken">>
          /\ rpc' = "done" /\ rresult' = "ok"
          /\ ((authToken' # authToken \/ userInfo' # userInfo) => cbs' # cbs)]_vars

\* C7 witness: the sign-in succeeded and the stored token is still there
C7_Witness ==
  /\ rSignIn = "ok" /\ rpc = "done" /\ authToken = "abc123"
  /\ currentUser = "alice"

\* C8: an invocation of restoreSession or of the auth-state callback that
\* finds the host reference gone makes no call at all, changes neither host
\* nor provider state, and returns at once without error.
C8_DeadHostNoOp ==
  [][/\ (Len(cbs') > Len(cbs) /\ ~alive)
          => /\ Last(cbs').log = <<>> /\ Last(cbs').pc = "done"
             /\ ~Last(cbs').live
             /\ authToken' = authToken /\ userInfo' = userInfo
             /\ currentUser' = currentUser /\ calls' = calls
     /\ \A i \in DOMAIN cbs' : (~cbs'[i].live) => cbs'[i].log = <<>>
     /\ (rpc' # "idle" /\ ~rLive')
          => (rlog' = <<>> /\ rpc' = "done" /\ rresult' = "ok")]_vars

\* C8 witness: a notification was delivered after the host was collected
C8_Witness ==
  /\ ~alive
  /\ \E i \in DOMAIN cbs : ~cbs[i].live /\ cbs[i].user # NullUser

\* the calls of a callback invocation for `user` that has got as far as `pc`
CallbackCalls(user, pc) ==
  IF user # NullUser
    THEN IF pc = "awaitSetUserInfo"
           THEN <<"setUserInfo">>
           ELSE <<"setUserInfo", "postStateToWebview">>
    ELSE IF pc = "awaitSetAuthToken"
           THEN <<"setAuthToken">>
           ELSE IF pc = "awaitSetUserInfo"
                  THEN <<"setAuthToken", "setUserInfo">>
                  ELSE <<"setAuthToken", "setUserInfo", "postStateToWebview">>

\* C9: every auth-state callback invocation with a live host requests
\* postStateToWebview exactly once, as its last call, after setUserInfo(profile)
\* has returned when a user is present, and after setAuthToken(absent) and then
\* setUserInfo(absent) have returned when the user is absent.
C9_PostStateAfterWrites ==
  \A i \in DOMAIN cbs :
    cbs[i].live
      => /\ Ops(cbs[i].log) = CallbackCalls(cbs[i].user, cbs[i].pc)
         /\ (cbs[i].user # NullUser => cbs[i].pc # "awaitSetAuthToken")
         /\ (cbs[i].pc = "done" => Count(cbs[i].log, "postStateToWebview") = 1)
         /\ \A k \in DOMAIN cbs[i].log :
              /\ cbs[i].log[k].op = "setAuthToken" => cbs[i].log[k].tok = Undefined
              /\ cbs[i].log[k].op = "setUserInfo" =>
                   cbs[i].log[k].info =
                     IF cbs[i].user = NullUser THEN <<>>
                     ELSE <<[displayName |-> UserRecord(cbs[i].user).displayName,
                             email |-> UserRecord(cbs[i].user).email,
                             photoURL |-> UserRecord(cbs[i].user).photoURL]>>

\* C9 witness: a callback for a user and a callback for no user have returned
C9_Witness ==
  /\ \E i \in DOMAIN cbs : cbs[i].live /\ cbs[i].pc = "done" /\ cbs[i].user = NullUser
  /\ \E i \in DOMAIN cbs : cbs[i].live /\ cbs[i].pc = "done" /\ cbs[i].user # NullUser

\* C10: restoration never settles with an error, whatever the provider's
\* sign-in and cleanup sign-out do, and once the cleanup sign-out has failed
\* restoration has settled having made one sign-in and one sign-out attempt.
C10_RestoreNeverRejects ==
  /\ rresult \in {"pending", "ok"}
  /\ (rpc = "done") <=> (rresult = "ok")
  /\ (rSignOut # "none")
       => /\ rpc = "done" /\ rSignIn = "failed"
          /\ Ops(rlog) = <<"getSecret", "signInWithCustomToken", "setAuthToken",
                           "setUserInfo", "signOut">>
  /\ (rSignIn = "ok") => (rpc = "done" /\ rSignOut = "none")

\* C10 witness: sign-in and cleanup sign-out both failed, restoration settled
C10_Witness ==
  rpc = "done" /\ rSignIn = "failed" /\ rSignOut = "failed" /\ rresult = "ok"

\* a step of the explicit signInWithCustomToken call i: it is made, or it
\* settles
SignInStep(i) ==
  /\ i \in DOMAIN calls' /\ calls'[i].op = "signInWithCustomToken"
  /\ (i \notin DOMAIN calls \/ calls[i] # calls'[i])

\* C11: an explicit signInWithCustomToken(token) that fails at the provider
\* settles with that failure for its caller in the very step the provider
\* rejects it (no second attempt), and no step of the call changes the host's
\* stored token or profile; a rejected sign-in leaves the provider's session
\* alone and a settled call never changes again.
C11_SignInFailureSurfaced ==
  [][/\ \A i \in DOMAIN calls' :
          SignInStep(i)
            => /\ authToken' = authToken /\ userInfo' = userInfo
               /\ (calls'[i].provider = "rejected"
                     => /\ calls'[i].status = "error"
                        /\ currentUser' = currentUser /\ events' = events
                        /\ Len(calls') = Len(calls))
               /\ (calls'[i].provider = "resolved" => calls'[i].status = "ok")
               /\ (calls'[i].provider = "pending" => calls'[i].status = "pending")
     /\ \A i \in DOMAIN calls :
          calls[i].status # "pending" => calls'[i] = calls[i]]_vars

\* C11 witness: a sign-in has been rejected while the host holds a token and
\* a profile
C11_Witness ==
  \E i \in DOMAIN calls :
    /\ calls[i].op = "signInWithCustomToken" /\ calls[i].provider = "rejected"
    /\ calls[i].status = "error"
    /\ authToken # Undefined /\ userInfo # None

\* where a step stands in the constructor's order
Pos(log, step) == CHOOSE i \in DOMAIN log : log[i] = step

\* C12: the constructor asks for local persistence, registers the auth-state
\* listener and then starts restoration, in that order, without waiting for
\* the persistence request; when that request later succeeds or fails nothing
\* else changes: the listener stays registered and restoration goes on.
C12_PersistenceFailureNotFatal ==
  [][/\ (rpc = "idle" /\ rpc' # "idle")
          => /\ persistence' = "pending"
             /\ registered'
             /\ events' = <<currentUser>>
             /\ Pos(ctorLog', "setPersistence") < Pos(ctorLog', "onAuthStateChanged")
             /\ Pos(ctorLog', "onAuthStateChanged") < Pos(ctorLog', "restoreSession")
     /\ (persistence = "pending" /\ persistence' # "pending")
          => /\ persistence' \in {"local", "failed"}
             /\ UNCHANGED <<alive, registered, ctorLog, restoreVars, hostVars,
                            provVars, cbs, calls>>
     /\ (rpc' # "idle") => registered'
     /\ (rpc' \notin {"idle", "done"}) => (ENABLED RestoreStep)']_vars

\* C12 witness: the persistence request failed, restoration has settled and
\* an auth-state callback has run
C12_Witness ==
  /\ persistence = "failed" /\ registered
  /\ rpc = "done" /\ rSignIn = "ok"
  /\ \E i \in DOMAIN cbs : cbs[i].live /\ cbs[i].pc = "done"

\* the auth-state callback invocation i makes a host write in this step
CallbackWrites(i) ==
  /\ i \in DOMAIN cbs' /\ cbs'[i].live
  /\ (i \notin DOMAIN cbs \/ cbs[i].log # cbs'[i].log)
  /\ Last(cbs'[i].log).op \in {"setAuthToken", "setUserInfo"}

\* C13: once restoration has settled, every step that changes the host's
\* profile or stored token is a step of an auth-state callback invocation
\* making that write; the steps of explicit signInWithCustomToken and signOut
\* calls change no host state, they only make the provider queue the
\* notification whose callback does.
C13_OnlyCallbacksWriteAfterRestore ==
  [][/\ (rpc = "done" /\ (userInfo' # userInfo \/ authToken' # authToken))
          => /\ \E i \in DOMAIN cbs' : CallbackWrites(i)
             /\ calls' = calls
             /\ (userInfo' # userInfo => infoWriter' = "callback")
     /\ (calls' # calls)
          => (authToken' = authToken /\ userInfo' = userInfo /\ cbs' = cbs)]_vars

\* C13 witness: restoration settled without writing anything, the host then
\* signed bob in, and the callback for bob wrote his profile
C13_Witness ==
  /\ rpc = "done" /\ Ops(rlog) = <<"getSecret">> /\ nExternal = 0
  /\ \E i \in DOMAIN calls :
       calls[i].op = "signInWithCustomToken" /\ calls[i].status = "ok"
         /\ calls[i].tok = "xyz789"
  /\ infoWriter = "callback"
  /\ userInfo = <<[displayName |-> "Bob", email |-> "b@x.com",
                   photoURL |-> "https://x.com/bob.png"]>>

\* C14: dispose() leaves a restoration in flight alone, and a restoration
\* that is suspended at an await when dispose() has been called can still
\* resume and then does just what the code does at that point: the sign-in
\* with the token it read, and after a failed sign-in setAuthToken(absent),
\* setUserInfo(absent), the cleanup sign-out, and a normal return.
C14_DisposeDoesNotCancelRestore ==
  [][/\ (~disposed /\ disposed')
          => UNCHANGED <<alive, restoreVars, hostVars, provVars, registered, cbs, calls>>
     /\ (disposed' /\ rpc' \notin {"idle", "done"}) => (ENABLED RestoreStep)'
     /\ (disposed /\ rpc' # rpc)
          => \/ /\ rpc = "awaitSetUserInfoExisting"
                /\ rpc' = "done" /\ rresult' = "ok" /\ rlog' = rlog
             \/ /\ rpc = "awaitGetSecret" /\ Truthy(rToken)
                /\ rpc' = "awaitSignIn"
                /\ rlog' = Append(rlog, [op |-> "signInWithCustomToken",
                                         tok |-> rToken, info |-> <<>>])
             \/ /\ rpc = "awaitGetSecret" /\ ~Truthy(rToken)
                /\ rpc' = "done" /\ rresult' = "ok" /\ rlog' = rlog
             \/ /\ rpc = "awaitSignIn"
                /\ rpc' = "done" /\ rresult' = "ok" /\ rSignIn' = "ok" /\ rlog' = rlog
                /\ currentUser' = UserOfToken(rToken)
             \/ /\ rpc = "awaitSignIn"
                /\ rpc' = "awaitSetAuthToken" /\ rSignIn' = "failed"
                /\ authToken' = Undefined
                /\ rlog' = Append(rlog, [op |-> "setAuthToken", tok |-> Undefined,
                                         info |-> <<>>])
             \/ /\ rpc = "awaitSetAuthToken"
                /\ rpc' = "awaitSetUserInfo"
                /\ userInfo' = <<>>
                /\ rlog' = Append(rlog, [op |-> "setUserInfo", tok |-> NoArg,
                                         info |-> <<>>])
             \/ /\ rpc = "awaitSetUserInfo"
                /\ rpc' = "awaitSignOut"
                /\ rlog' = Append(rlog, [op |-> "signOut", tok |-> NoArg,
                                         info |-> <<>>])
             \/ /\ rpc = "awaitSignOut"
                /\ rpc' = "done" /\ rresult' = "ok" /\ rlog' = rlog
                /\ \/ rSignOut' = "ok" /\ currentUser' = NullUser
                   \/ rSignOut' = "failed" /\ currentUser' = currentUser]_vars

\* C14 witness: dispose() was called while restoration awaited its sign-in;
\* the sign-in then failed and restoration went through its whole cleanup
C14_Witness ==
  /\ disposedAt = "awaitSignIn" /\ rpc = "done" /\ rSignOut = "failed"
  /\ Ops(rlog) = <<"getSecret", "signInWithCustomToken", "setAuthToken",
                   "setUserInfo", "signOut">>
  /\ authToken = Undefined

\* C15: if every call restoreSession awaits returns in the end, a started
\* restoration settles in the end; and a restoration that has not settled is
\* always waiting for exactly such a return, so a call that never returns is
\* the only thing that can keep it from settling.
C15_RestoreSettles ==
  /\ (rpc # "idle") ~> (rpc = "done" /\ rresult = "ok")
  /\ [](rpc \notin {"idle", "done"} => ENABLED RestoreStep)

\* C15 witness: a restoration has settled along its longest path, after a
\* failed sign-in and a cleanup sign-out that succeeded
C15_Witness ==
  /\ rpc = "done" /\ rresult = "ok"
  /\ rSignIn = "failed" /\ rSignOut = "ok" /\ currentUser = NullUser

\* the token arguments of the setAuthToken calls in a call log
SetAuthTokenArgs(log) == {log[k].tok : k \in {j \in DOMAIN log : log[j].op = "setAuthToken"}}

\* C16: every setAuthToken call of the manager passes the absent value, so
\* each step leaves the stored token as it was or makes it absent: an absent
\* token is never made present again, and a successful sign-in writes none.
C16_TokenOnlyCleared ==
  [][/\ authToken' \in {authToken, Undefined}
     /\ SetAuthTokenArgs(rlog') \subseteq {Undefined}
     /\ \A i \in DOMAIN cbs' : SetAuthTokenArgs(cbs'[i].log) \subseteq {Undefined}
     /\ (currentUser' # currentUser /\ currentUser' # NullUser)
          => authToken' = authToken]_vars

\* C16 witness: restoration cleared the stored token after its sign-in failed,
\* the host then signed in successfully, and the token is still absent
C16_Witness ==
  /\ rSignIn = "failed" /\ rToken = "abc123" /\ authToken = Undefined
  /\ currentUser # NullUser
  /\ \E i \in DOMAIN calls :
       calls[i].op = "signInWithCustomToken" /\ calls[i].status = "ok"
         /\ currentUser = UserOfToken(calls[i].tok)

\* C17: dispose() changes neither host state nor the provider's session and
\* leaves the auth-state listener registered; after it the provider still
\* queues a notification for every change of user, a queued notification can
\* still be delivered, and its callback, given a live host, writes host state
\* and requests postStateToWebview as it does before dispose().
C17_DisposeKeepsListener ==
  [][/\ (~disposed /\ disposed')
          => UNCHANGED <<alive, registered, hostVars, provVars, cbs, calls>>
     /\ disposed' => registered'
     /\ (disposed /\ events # <<>>) => ENABLED HandleAuthStateChange
     /\ (disposed /\ currentUser' # currentUser)
          => events' = Append(events, currentUser')
     /\ (disposed /\ alive /\ Len(cbs') > Len(cbs))
          => /\ Last(cbs').live /\ Last(cbs').user = Head(events)
             /\ IF Head(events) # NullUser
                  THEN /\ Last(cbs').pc = "awaitSetUserInfo"
                       /\ userInfo' = <<[displayName |-> UserRecord(Head(events)).displayName,
                                         email |-> UserRecord(Head(events)).email,
                                         photoURL |-> UserRecord(Head(events)).photoURL]>>
                  ELSE /\ Last(cbs').pc = "awaitSetAuthToken"
                       /\ authToken' = Undefined
     /\ \A i \in DOMAIN cbs' :
          (cbs'[i].disposed /\ cbs'[i].live)
            => Ops(cbs'[i].log) = CallbackCalls(cbs'[i].user, cbs'[i].pc)
     /\ \A i \in DOMAIN cbs :
          (cbs[i].disposed /\ cbs[i].pc = "awaitSetAuthToken" /\ cbs'[i] # cbs[i])
            => userInfo' = <<>>]_vars

\* C17 witness: a notification for a user was delivered after dispose(), its
\* callback wrote the profile, requested the webview update and returned
C17_Witness ==
  /\ disposed /\ alive
  /\ \E i \in DOMAIN cbs :
       /\ cbs[i].disposed /\ cbs[i].live /\ cbs[i].pc = "done"
       /\ cbs[i].user # NullUser
       /\ Ops(cbs[i].log) = <<"setUserInfo", "postStateToWebview">>
       /\ userInfo = cbs[i].log[1].info

\* C18: a restoration with a live host that finds no provider user and reads
\* no stored token (absent, or the empty string) has made the one getSecret
\* call and nothing else, and settles normally in its next step, which leaves
\* host and provider state as they are.
C18_NoTokenRestoreDoesNothing ==
  [][/\ (rLive' /\ rlog' # <<>> /\ rlog'[1].op = "getSecret"
           /\ rToken' \in {Undefined, ""})
          => /\ rlog' = <<[op |-> "getSecret", tok |-> NoArg, info |-> <<>>]>>
             /\ rpc' \in {"awaitGetSecret", "done"}
             /\ rSignIn' = "none" /\ rSignOut' = "none"
             /\ (rpc' = "done" => rresult' = "ok")
     /\ (rpc = "awaitGetSecret" /\ rToken \in {Undefined, ""} /\ rpc' # rpc)
          => /\ rpc' = "done"
             /\ UNCHANGED <<authToken, userInfo, currentUser, events, cbs, calls>>
     /\ (rpc = "idle" /\ rpc' # "idle" /\ currentUser = NullUser)
          => (rToken' = authToken /\ rpc' = "awaitGetSecret")]_vars

\* C18 witness: a restoration that read the empty string has settled
C18_Witness ==
  /\ rpc = "done" /\ rLive /\ rToken = ""
  /\ Ops(rlog) = <<"getSecret">>

\* the operations restoreSession may call
RestoreCalls ==
  {"getSecret", "signInWithCustomToken", "setAuthToken", "setUserInfo", "signOut"}

\* C19: restoreSession never requests postStateToWebview, on any of its
\* paths; the requests the manager makes are the auth-state callbacks', one
\* for every invocation that has got past its host writes.
C19_RestoreNeverPostsState ==
  /\ \A k \in DOMAIN rlog : rlog[k].op \in RestoreCalls
  /\ Count(rlog, "postStateToWebview") = 0
  /\ \A i \in DOMAIN cbs :
       Count(cbs[i].log, "postStateToWebview") =
         IF cbs[i].live /\ cbs[i].pc \in {"awaitPostState", "done"} THEN 1 ELSE 0

\* C19 witness: restoration has gone through its failure cleanup and settled,
\* and an auth-state callback has requested the webview update
C19_Witness ==
  /\ rpc = "done" /\ rSignOut # "none"
  /\ \E i \in DOMAIN cbs : Count(cbs[i].log, "postStateToWebview") = 1
====
